---- MODULE Spec2Model ----
(***************************************************************************)
(* Model of the synchronous TCP client recipes:                            *)
(*   chapter_01/recipe_01  creatingEndpointClient / createEndpointServer   *)
(*   chapter_01/recipe_04  resolving a DNS name                            *)
(*   chapter_01/recipe_06  opening and connecting a socket                 *)
(*   chapter_02/recipe_03  connecting and writing with writeToSocket       *)
(*   chapter_06/recipe_01  composite (gather) buffers                      *)
(* One behaviour is one run of one of the programs; the operating system   *)
(* (address parsing, open, connect, write_some, resolve) is the            *)
(* environment and answers nondeterministically.                           *)
(***************************************************************************)
EXTENDS Integers, Sequences, FiniteSets, TLC

\* Cap on the number of write_some calls of one run (the loop itself has none).
MaxAttempts == 4

VARIABLES
    prog,                 \* which program runs
    pc,                   \* position in it
    raw_ip_address,       \* the textual address, a sequence of characters
    host, port_str,       \* recipe_04: the query's host and service strings
    ec,                   \* the error_code output parameter (recipe_01, recipe_04)
    ip_address,           \* recipe_01: the parsed address
    ep,                   \* the endpoint built from the parsed address
    server_ep,            \* createEndpointServer's endpoint
    client_ret,           \* what creatingEndpointClient returned
    it,                   \* recipe_04: the resolver's result
    sock,                 \* the socket's state
    buf,                  \* writeToSocket: the data to write
    total_bytes_written,  \* writeToSocket: the loop's counter
    wire,                 \* the bytes the socket accepted, in order
    accepted,             \* the value each write_some call returned
    offered,              \* the buffer each write_some call was given
    open_attempts, connect_attempts, resolve_requests, write_attempts,
    e,                    \* the system_error in flight or caught
    ret                   \* main's return value (meaningful at pc = "returned")

vars == <<prog, pc, raw_ip_address, host, port_str, ec, ip_address, ep, server_ep,
          client_ret, it, sock, buf, total_bytes_written, wire, accepted, offered,
          open_attempts, connect_attempts, resolve_requests, write_attempts, e, ret>>

----------------------------------------------------------------------------
\* Text and its conversions

Digits == <<"0", "1", "2", "3", "4", "5", "6", "7", "8", "9">>

IsDigit(c) == \E i \in 1..10 : Digits[i] = c

DigitValue(c) == (CHOOSE i \in 1..10 : Digits[i] = c) - 1

\* The decimal value of a sequence of digits.
RECURSIVE Decimal(_)
Decimal(s) ==
    IF s = <<>> THEN 0
    ELSE 10 * Decimal(SubSeq(s, 1, Len(s) - 1)) + DigitValue(s[Len(s)])

AllDigits(s) == s # <<>> /\ \A i \in 1..Len(s) : IsDigit(s[i])

\* The fields of s between the separators sep.
RECURSIVE Split(_, _)
Split(s, sep) ==
    IF \A i \in 1..Len(s) : s[i] # sep THEN <<s>>
    ELSE LET k == CHOOSE i \in 1..Len(s) :
                      s[i] = sep /\ \A j \in 1..(i - 1) : s[j] # sep
         IN <<SubSeq(s, 1, k - 1)>> \o Split(SubSeq(s, k + 1, Len(s)), sep)

\* One field of a dotted-decimal address: 1 to 3 digits, no leading zero, at most 255.
IsOctet(f) ==
    /\ AllDigits(f)
    /\ Len(f) <= 3
    /\ (Len(f) > 1 => f[1] # "0")
    /\ Decimal(f) <= 255

NoAddress == [ver |-> "none", bytes |-> <<>>]

\* asio::ip::address::from_string(text, ec): the address and the error code.
\* A failed parse yields a default-constructed address and invalid_argument.
from_string(text) ==
    LET fields == Split(text, ".")
    IN IF Len(fields) = 4 /\ \A i \in 1..4 : IsOctet(fields[i])
       THEN [ec |-> 0,
             addr |-> [ver |-> "v4", bytes |-> [i \in 1..4 |-> Decimal(fields[i])]]]
       ELSE [ec |-> 22, addr |-> NoAddress]

\* asio::ip::address_v6::any()
address_v6_any == [ver |-> "v6", bytes |-> [i \in 1..16 |-> 0]]

NoEndpoint == [addr |-> NoAddress, port |-> 0]

\* asio::ip::tcp::endpoint(address, port)
endpoint(addr, port) == [addr |-> addr, port |-> port % 65536]

LoopbackText  == <<"1", "2", "7", ".", "0", ".", "0", ".", "1">>
OutOfRangeText == <<"6", "0", "0", ".", "1", ".", "1", ".", "1">>
NotAnIpText   == <<"n", "o", "t", "-", "a", "n", "-", "i", "p">>
ShortText     == <<"1", "0", ".", "0", ".", "0">>

RawAddresses == {LoopbackText, OutOfRangeText, NotAnIpText, ShortText}

----------------------------------------------------------------------------
\* Buffers

Hello == <<"H", "e", "l", "l", "o">>

part1 == <<"H", "e", "l", "l", "o", " ">>
part2 == <<"m", "y", " ">>
part3 == <<"f", "r", "i", "e", "n", "d", "!">>

\* asio::const_buffer(p, n): a view of the first n bytes at p.
const_buffer(p, n) == SubSeq(p, 1, n)

\* The composite buffer after the three push_back calls.
CompositeBuffersGatherOutput ==
    Append(Append(Append(<<>>, const_buffer(part1, 6)), const_buffer(part2, 3)),
           const_buffer(part3, 7))

\* asio::buffer_size of a buffer sequence: the sum of its segments' lengths.
RECURSIVE buffer_size(_)
buffer_size(segs) ==
    IF segs = <<>> THEN 0 ELSE Len(Head(segs)) + buffer_size(Tail(segs))

\* The bytes a buffer sequence presents, segment after segment.
RECURSIVE Gather(_)
Gather(segs) ==
    IF segs = <<>> THEN <<>> ELSE Head(segs) \o Gather(Tail(segs))

\* The data writeToSocket is run on: its own "Hello", the gathered bytes of the
\* composite buffer, and the empty string.
Payloads == {Hello, Gather(CompositeBuffersGatherOutput), <<>>}

\* The loop left one byte early.
LoopContinues_one_short(written, b) == written + 1 < Len(b)

\* writeToSocket line 15: the loop's condition.
LoopContinues(written, b) == written # Len(b)

\* The whole buffer offered again on every attempt.
UnwrittenTail_whole(b, written) == b

\* The length reduced, the start not advanced.
UnwrittenTail_no_offset(b, written) == SubSeq(b, 1, Len(b) - written)

\* writeToSocket lines 18-20: asio::buffer(buf.c_str() + written, buf.length() - written).
UnwrittenTail(b, written) == SubSeq(b, written + 1, Len(b))

\* The counter advanced by what was offered, not by what write_some returned.
NextTotal_assume_all(written, tail, n) == written + Len(tail)

\* writeToSocket line 17: total_bytes_written += the value write_some returned.
NextTotal(written, tail, n) == written + n

----------------------------------------------------------------------------
\* Errors

NoError == [code |-> 0, origin |-> "none"]

\* What the socket constructor, connect and write_some can report.
OpenErrors    == {24, 97}
ConnectErrors == {111, 113}
WriteErrors   == {32, 104}

\* A socket that is not closed when its scope is left.
DestroySocket_leak(s) == s

\* The socket's destructor, run when its scope is left (normally or by unwinding).
DestroySocket(s) == IF s \in {"Open", "Connected"} THEN "Closed" ELSE s

----------------------------------------------------------------------------
\* The programs' inputs

Programs == {"recipe_01", "recipe_04", "recipe_06", "recipe_03"}

port_num_client == 3333
port_num == 5000

GoogleCom   == <<"g", "o", "o", "g", "l", "e", ".", "c", "o", "m">>
Localhost   == <<"l", "o", "c", "a", "l", "h", "o", "s", "t">>
Hosts       == {GoogleCom, Localhost}

Port8080    == <<"8", "0", "8", "0">>
ServiceHttp == <<"h", "t", "t", "p">>
Services    == {Port8080, ServiceHttp}

\* What the name resolution can report for a host it cannot resolve.
ResolveErrors == {1, 2}

\* The addresses the resolver can answer with.
ResolvedAddresses ==
    {<<from_string(LoopbackText).addr>>,
     <<from_string(LoopbackText).addr, address_v6_any>>}

FirstPc(p) ==
    CASE p = "recipe_01" -> "client_parse"
      [] p = "recipe_04" -> "resolve"
      [] OTHER           -> "make_endpoint"

Init ==
    /\ prog \in Programs
    /\ pc = FirstPc(prog)
    /\ raw_ip_address \in (IF prog = "recipe_04" THEN {LoopbackText} ELSE RawAddresses)
    /\ host \in (IF prog = "recipe_04" THEN Hosts ELSE {GoogleCom})
    /\ port_str \in (IF prog = "recipe_04" THEN Services ELSE {Port8080})
    /\ buf \in (IF prog = "recipe_03" THEN Payloads ELSE {Hello})
    /\ ec = 0
    /\ ip_address = NoAddress
    /\ ep = NoEndpoint
    /\ server_ep = NoEndpoint
    /\ client_ret = 0
    /\ it = <<>>
    /\ sock = "Unopened"
    /\ total_bytes_written = 0
    /\ wire = <<>>
    /\ accepted = <<>>
    /\ offered = <<>>
    /\ open_attempts = 0
    /\ connect_attempts = 0
    /\ resolve_requests = 0
    /\ write_attempts = 0
    /\ e = NoError
    /\ ret = 0

----------------------------------------------------------------------------
\* chapter_01/recipe_01

\* creatingEndpointClient, lines 19-20: from_string with the error_code overload.
ClientParse ==
    /\ pc = "client_parse"
    /\ ec' = from_string(raw_ip_address).ec
    /\ ip_address' = from_string(raw_ip_address).addr
    /\ pc' = "client_check"
    /\ UNCHANGED <<prog, raw_ip_address, host, port_str, ep, server_ep, client_ret, it,
                   sock, buf, total_bytes_written, wire, accepted, offered,
                   open_attempts, connect_attempts, resolve_requests, write_attempts,
                   e, ret>>

\* The check of ec without its return: the endpoint is built from the failed parse.
ClientReturnError_fall_through ==
    /\ pc = "client_check"
    /\ ec # 0
    /\ ep' = endpoint(ip_address, port_num_client)
    /\ client_ret' \in {0, 1}
    /\ pc' = "server"
    /\ UNCHANGED <<prog, raw_ip_address, host, port_str, ec, ip_address, server_ep,
                   it, sock, buf, total_bytes_written, wire, accepted, offered,
                   open_attempts, connect_attempts, resolve_requests, write_attempts,
                   e, ret>>

\* creatingEndpointClient, lines 22-29: the parse failed, return the error's value.
ClientReturnError ==
    /\ pc = "client_check"
    /\ ec # 0
    /\ client_ret' = ec
    /\ pc' = "server"
    /\ UNCHANGED <<prog, raw_ip_address, host, port_str, ec, ip_address, ep, server_ep,
                   it, sock, buf, total_bytes_written, wire, accepted, offered,
                   open_attempts, connect_attempts, resolve_requests, write_attempts,
                   e, ret>>

\* The values a function that ends without a return statement can hand back.
MissingReturnValues == {0, 1}

\* creatingEndpointClient, lines 32-37: the endpoint is built; the function then
\* ends without a return statement, so its value is whatever the build leaves.
ClientMakeEndpoint ==
    /\ pc = "client_check"
    /\ ec = 0
    /\ ep' = endpoint(ip_address, port_num_client)
    /\ client_ret' \in MissingReturnValues
    /\ pc' = "server"
    /\ UNCHANGED <<prog, raw_ip_address, host, port_str, ec, ip_address, server_ep,
                   it, sock, buf, total_bytes_written, wire, accepted, offered,
                   open_attempts, connect_attempts, resolve_requests, write_attempts,
                   e, ret>>

\* createEndpointServer, then main's return 0.
CreateEndpointServer ==
    /\ pc = "server"
    /\ server_ep' = endpoint(address_v6_any, port_num_client)
    /\ ret' = 0
    /\ pc' = "returned"
    /\ UNCHANGED <<prog, raw_ip_address, host, port_str, ec, ip_address, ep,
                   client_ret, it, sock, buf, total_bytes_written, wire, accepted,
                   offered, open_attempts, connect_attempts, resolve_requests,
                   write_attempts, e>>

----------------------------------------------------------------------------
\* chapter_01/recipe_04

\* Lines 18-30: the query with the numeric_service flag, and one resolve call.
\* A service that is not a number is an error; otherwise the resolution answers
\* with candidates carrying the service's port, or reports an error.
Resolve ==
    /\ pc = "resolve"
    /\ resolve_requests' = resolve_requests + 1
    /\ \/ /\ ~AllDigits(port_str)
          /\ ec' \in ResolveErrors
          /\ it' = <<>>
       \/ /\ AllDigits(port_str)
          /\ \E addrs \in ResolvedAddresses :
                it' = [i \in 1..Len(addrs) |-> endpoint(addrs[i], Decimal(port_str))]
          /\ ec' = 0
       \/ /\ AllDigits(port_str)
          /\ ec' \in ResolveErrors
          /\ it' = <<>>
    /\ pc' = "resolve_check"
    /\ UNCHANGED <<prog, raw_ip_address, host, port_str, ip_address, ep, server_ep,
                   client_ret, sock, buf, total_bytes_written, wire, accepted, offered,
                   open_attempts, connect_attempts, write_attempts, e, ret>>

\* Lines 33-43: return the error's value, or 0.
ResolveReturn ==
    /\ pc = "resolve_check"
    /\ ret' = (IF ec # 0 THEN ec ELSE 0)
    /\ pc' = "returned"
    /\ UNCHANGED <<prog, raw_ip_address, host, port_str, ec, ip_address, ep, server_ep,
                   client_ret, it, sock, buf, total_bytes_written, wire, accepted,
                   offered, open_attempts, connect_attempts, resolve_requests,
                   write_attempts, e>>

----------------------------------------------------------------------------
\* chapter_01/recipe_06 and chapter_02/recipe_03: main

\* A throw inside the try block: the socket, if constructed, is destroyed by the
\* unwinding before the handler runs.
Throw(code, origin) ==
    /\ e' = [code |-> code, origin |-> origin]
    /\ sock' = DestroySocket(sock)
    /\ pc' = "catch"

\* The endpoint from the throwing from_string overload.
MakeEndpoint ==
    /\ pc = "make_endpoint"
    /\ LET parsed == from_string(raw_ip_address)
       IN IF parsed.ec = 0
          THEN /\ ep' = endpoint(parsed.addr, port_num)
               /\ pc' = "open"
               /\ UNCHANGED <<e, sock>>
          ELSE /\ Throw(parsed.ec, "parse")
               /\ UNCHANGED ep
    /\ UNCHANGED <<prog, raw_ip_address, host, port_str, ec, ip_address, server_ep,
                   client_ret, it, buf, total_bytes_written, wire, accepted, offered,
                   open_attempts, connect_attempts, resolve_requests, write_attempts,
                   ret>>

\* asio::ip::tcp::socket sock(ios, ep.protocol()): the constructor opens the
\* socket or throws, and then there is no socket object.
OpenSocket ==
    /\ pc = "open"
    /\ open_attempts' = open_attempts + 1
    /\ \/ /\ sock' = "Open"
          /\ pc' = "connect"
          /\ UNCHANGED e
       \/ \E code \in OpenErrors : Throw(code, "open")
    /\ UNCHANGED <<prog, raw_ip_address, host, port_str, ec, ip_address, ep, server_ep,
                   client_ret, it, buf, total_bytes_written, wire, accepted, offered,
                   connect_attempts, resolve_requests, write_attempts, ret>>

\* A failed connection attempt tried once more.
Connect_retry ==
    /\ pc = "connect"
    /\ connect_attempts' = connect_attempts + 1
    /\ \/ /\ sock' = "Connected"
          /\ pc' = (IF prog = "recipe_03" THEN "write_loop" ELSE "scope_exit")
          /\ UNCHANGED e
       \/ /\ connect_attempts = 0
          /\ UNCHANGED <<sock, pc, e>>
       \/ /\ connect_attempts > 0
          /\ \E code \in {111, 113} :
                /\ e' = [code |-> code, origin |-> "connect"]
                /\ sock' = "Closed"
                /\ pc' = "catch"
    /\ UNCHANGED <<prog, raw_ip_address, host, port_str, ec, ip_address, ep, server_ep,
                   client_ret, it, buf, total_bytes_written, wire, accepted, offered,
                   open_attempts, resolve_requests, write_attempts, ret>>

\* The connection attempt's failure not looked at: the program goes on.
Connect_unchecked ==
    /\ pc = "connect"
    /\ connect_attempts' = connect_attempts + 1
    /\ sock' \in {"Connected", "Open"}
    /\ pc' = (IF prog = "recipe_03" THEN "write_loop" ELSE "scope_exit")
    /\ UNCHANGED <<prog, raw_ip_address, host, port_str, ec, ip_address, ep, server_ep,
                   client_ret, it, buf, total_bytes_written, wire, accepted, offered,
                   open_attempts, resolve_requests, write_attempts, e, ret>>

\* sock.connect(ep): one connection attempt; it throws when it fails.
Connect ==
    /\ pc = "connect"
    /\ connect_attempts' = connect_attempts + 1
    /\ \/ /\ sock' = "Connected"
          /\ pc' = (IF prog = "recipe_03" THEN "write_loop" ELSE "scope_exit")
          /\ UNCHANGED e
       \/ \E code \in ConnectErrors : Throw(code, "connect")
    /\ UNCHANGED <<prog, raw_ip_address, host, port_str, ec, ip_address, ep, server_ep,
                   client_ret, it, buf, total_bytes_written, wire, accepted, offered,
                   open_attempts, resolve_requests, write_attempts, ret>>

\* The end of the try block (the socket goes out of scope) and return 0.
MainReturn ==
    /\ pc = "scope_exit"
    /\ sock' = DestroySocket(sock)
    /\ ret' = 0
    /\ pc' = "returned"
    /\ UNCHANGED <<prog, raw_ip_address, host, port_str, ec, ip_address, ep, server_ep,
                   client_ret, it, buf, total_bytes_written, wire, accepted, offered,
                   open_attempts, connect_attempts, resolve_requests, write_attempts,
                   e>>

\* The catch handler: return e.code().value().
Catch ==
    /\ pc = "catch"
    /\ ret' = e.code
    /\ pc' = "returned"
    /\ UNCHANGED <<prog, raw_ip_address, host, port_str, ec, ip_address, ep, server_ep,
                   client_ret, it, sock, buf, total_bytes_written, wire, accepted,
                   offered, open_attempts, connect_attempts, resolve_requests,
                   write_attempts, e>>

----------------------------------------------------------------------------
\* chapter_02/recipe_03: writeToSocket

\* One iteration of the loop: the condition holds, write_some is given the
\* unwritten tail and returns how many of its bytes the socket took (any count
\* from 0 to the tail's length), or throws. On a socket that is not connected it
\* throws.
WriteSome ==
    /\ pc = "write_loop"
    /\ LoopContinues(total_bytes_written, buf)
    /\ write_attempts < MaxAttempts
    /\ write_attempts' = write_attempts + 1
    /\ LET tail == UnwrittenTail(buf, total_bytes_written)
       IN /\ offered' = Append(offered, tail)
          /\ \/ /\ sock = "Connected"
                /\ \E n \in 0..Len(tail) :
                      /\ accepted' = Append(accepted, n)
                      /\ wire' = wire \o SubSeq(tail, 1, n)
                      /\ total_bytes_written' = NextTotal(total_bytes_written, tail, n)
                /\ UNCHANGED <<pc, e, sock>>
             \/ /\ \E code \in (IF sock = "Connected" THEN WriteErrors ELSE {107}) :
                      Throw(code, "write")
                /\ UNCHANGED <<accepted, wire, total_bytes_written>>
    /\ UNCHANGED <<prog, raw_ip_address, host, port_str, ec, ip_address, ep, server_ep,
                   client_ret, it, buf, open_attempts, connect_attempts,
                   resolve_requests, ret>>

\* The loop's condition fails: writeToSocket returns.
WriteReturn ==
    /\ pc = "write_loop"
    /\ ~LoopContinues(total_bytes_written, buf)
    /\ pc' = "scope_exit"
    /\ UNCHANGED <<prog, raw_ip_address, host, port_str, ec, ip_address, ep, server_ep,
                   client_ret, it, sock, buf, total_bytes_written, wire, accepted,
                   offered, open_attempts, connect_attempts, resolve_requests,
                   write_attempts, e, ret>>

----------------------------------------------------------------------------

Next ==
    \/ ClientParse
    \/ ClientReturnError
    \/ ClientMakeEndpoint
    \/ CreateEndpointServer
    \/ Resolve
    \/ ResolveReturn
    \/ MakeEndpoint
    \/ OpenSocket
    \/ Connect
    \/ WriteSome
    \/ WriteReturn
    \/ MainReturn
    \/ Catch

Spec == Init /\ [][Next]_vars

----------------------------------------------------------------------------
\* Vocabulary of the properties

RECURSIVE SumSeq(_)
SumSeq(s) == IF s = <<>> THEN 0 ELSE Head(s) + SumSeq(Tail(s))

\* writeToSocket returned normally.
Complete == prog = "recipe_03" /\ pc \in {"scope_exit", "returned"} /\ e = NoError

\* writeToSocket was left by an exception.
Failed == e.origin = "write"

\* Some write_some call reported an error instead of returning a count.
WriteErrorReported == Len(accepted) < write_attempts

\* The last write_some call returned 0 and reported no error.
ZeroByteAttempt ==
    /\ write_attempts > 0
    /\ Len(accepted) = write_attempts
    /\ accepted[Len(accepted)] = 0

\* The address text did not parse, and the parse has been done.
ParseFailed ==
    /\ prog \in {"recipe_01", "recipe_06", "recipe_03"}
    /\ pc # FirstPc(prog)
    /\ from_string(raw_ip_address).ec # 0

\* An operation of the run has failed.
Failure == e # NoError \/ (prog = "recipe_04" /\ pc # "resolve" /\ ec # 0)

\* The process's exit status: the low 8 bits of main's return value.
ExitStatus(r) == r % 256

\* What main's handler has of a failed writeToSocket call: the function returns
\* void and the system_error carries the error code alone.
ReportedToCaller == [code |-> e.code]

----------------------------------------------------------------------------
\* C1: a write attempt that transfers zero bytes without reporting an error ends
\* the writeToSocket call at once with an error (StalledTransfer); the loop does
\* not go on to another attempt.
C1_ZeroByteAttemptEndsCall ==
    ZeroByteAttempt => (pc \in {"catch", "returned"} /\ Failed)

\* C2: the loop stops in exactly two cases. The call has completed only with
\* total_bytes_written equal to the data's length, and once they are equal the
\* only step is the return; the call has failed if and only if a write attempt
\* reported an error; the loop is left in no other case; and no write attempt
\* follows either case.
C2_LoopStopsExactly ==
    /\ [](Complete => total_bytes_written = Len(buf))
    /\ [](Failed <=> WriteErrorReported)
    /\ [][(pc = "write_loop" /\ total_bytes_written = Len(buf))
            => (pc' = "scope_exit" /\ Complete')]_vars
    /\ [][(pc = "write_loop" /\ pc' # "write_loop")
            => \/ (total_bytes_written = Len(buf) /\ Complete')
               \/ (WriteErrorReported' /\ Failed')]_vars
    /\ [][(total_bytes_written = Len(buf) \/ WriteErrorReported)
            => write_attempts' = write_attempts]_vars

C2_Witness ==
    /\ Complete
    /\ buf = Gather(CompositeBuffersGatherOutput)
    /\ write_attempts = 3
    /\ pc = "returned"

\* C3: when writeToSocket fails after some attempts succeeded, what the caller
\* gets carries the number of bytes transferred before the failure together
\* with the error.
C3_PartialProgressReported ==
    (pc \in {"catch", "returned"} /\ Failed)
        => /\ "bytes_transferred" \in DOMAIN ReportedToCaller
           /\ ReportedToCaller.bytes_transferred = Len(wire)

C5_SocketReleased ==
    (prog \in {"recipe_06", "recipe_03"} /\ pc \in {"catch", "returned"})
        => sock \in {"Unopened", "Closed"}

C5_Witness ==
    /\ pc = "returned"
    /\ Failed
    /\ total_bytes_written > 0
    /\ sock = "Closed"

\* C6: during a writeToSocket call total_bytes_written never decreases and never
\* exceeds the data's length.
C6_CounterMonotoneBounded ==
    /\ [](total_bytes_written <= Len(buf))
    /\ [][total_bytes_written' >= total_bytes_written]_vars

C6_Witness ==
    /\ pc = "write_loop"
    /\ write_attempts = 3
    /\ accepted = <<2, 0, 3>>
    /\ total_bytes_written = 5
    /\ Len(buf) = 16

\* C7: after a failed parse no endpoint is built and no socket is opened or
\* connected; the error-code form returns the parse error, the exception form
\* goes to the handler with it and returns it.
C7_NoUseAfterParseFailure ==
    ParseFailed
        => /\ ep = NoEndpoint
           /\ sock = "Unopened"
           /\ open_attempts = 0 /\ connect_attempts = 0 /\ write_attempts = 0
           /\ (prog = "recipe_01" =>
                 /\ ec = from_string(raw_ip_address).ec
                 /\ (pc # "client_check" => client_ret = ec))
           /\ (prog # "recipe_01" =>
                 /\ pc \in {"catch", "returned"}
                 /\ e = [code |-> from_string(raw_ip_address).ec, origin |-> "parse"]
                 /\ (pc = "returned" => ret = e.code))

C7_Witness ==
    /\ ParseFailed
    /\ raw_ip_address = OutOfRangeText
    /\ prog = "recipe_01"
    /\ pc = "returned"

\* C8: no retry: at most one open, one connection attempt and one resolution
\* request per run; after a failure no further open, connection, resolution or
\* write attempt is made, and the run returns the error.
C8_NoRetry ==
    /\ [](open_attempts <= 1 /\ connect_attempts <= 1 /\ resolve_requests <= 1)
    /\ [][Failure => /\ open_attempts' = open_attempts
                     /\ connect_attempts' = connect_attempts
                     /\ resolve_requests' = resolve_requests
                     /\ write_attempts' = write_attempts]_vars
    /\ []((Failure /\ pc = "returned")
            => ret = (IF prog = "recipe_04" THEN ec ELSE e.code))

C8_Witness ==
    /\ pc = "returned"
    /\ e.origin = "connect"
    /\ connect_attempts = 1
    /\ ret = 111

\* C9: every write attempt offers exactly the unwritten tail (it starts at the
\* number of bytes written before it and runs to the end of the data), and the
\* bytes the socket accepted are, in order, the first total_bytes_written bytes
\* of the data.
C9_TailOfferedPrefixSent ==
    /\ wire = SubSeq(buf, 1, total_bytes_written)
    /\ Len(offered) = write_attempts
    /\ \A i \in 1..Len(offered) :
          LET before == SumSeq(SubSeq(accepted, 1, i - 1))
          IN /\ offered[i] = SubSeq(buf, before + 1, Len(buf))
             /\ Len(offered[i]) = Len(buf) - before

C9_Witness ==
    /\ buf = Gather(CompositeBuffersGatherOutput)
    /\ accepted = <<6, 3>>
    /\ offered = <<buf, SubSeq(buf, 7, 16), part3>>
    /\ Failed

\* C10: a write attempt is issued only on a connected socket; open comes before
\* connect and connect before any write attempt; after a failed open or connect
\* no write attempt is issued; the exit status is 0 only if the parse, the open,
\* the connect and the whole transfer succeeded.
C10_WriteOnlyConnected ==
    /\ [][write_attempts' # write_attempts => sock = "Connected"]_vars
    /\ [][connect_attempts' # connect_attempts => sock = "Open"]_vars
    /\ [](connect_attempts > 0 => (open_attempts = 1 /\ e.origin \notin {"parse", "open"}))
    /\ [](write_attempts > 0
            => (connect_attempts = 1 /\ e.origin \notin {"parse", "open", "connect"}))
    /\ [](e.origin \in {"parse", "open", "connect"} => write_attempts = 0)
    /\ []((prog \in {"recipe_06", "recipe_03"} /\ pc = "returned" /\ ExitStatus(ret) = 0)
            => /\ from_string(raw_ip_address).ec = 0
               /\ open_attempts = 1 /\ connect_attempts = 1
               /\ e = NoError
               /\ (prog = "recipe_03" => wire = buf))

C10_Witness ==
    /\ prog = "recipe_03"
    /\ pc = "returned"
    /\ ret = 0
    /\ wire = Hello
    /\ write_attempts = 2

====
